---- MODULE Spec2Model ----
(***************************************************************************)
(* The retrieval-augmented question answering flow of the notebook         *)
(* 02.1_Bedrock_KB_Langchain: the manual cells (retrieve, get_contexts,    *)
(* claude_prompt.format, llm(prompt)) and the packaged chain               *)
(* qa = RetrievalQA.from_chain_type(...); answer = qa(query); and the      *)
(* Claude 3 invoke and print cells of the notebook 01_Getting_started.     *)
(*                                                                         *)
(* Strings are modelled as sequences of tokens (a token is a TLA+ string): *)
(* a template literal, a placeholder, a passage text, a question, or a     *)
(* piece of punctuation a conversion adds.                                 *)
(***************************************************************************)
EXTENDS Integers, Sequences, FiniteSets, TLC

\* ------------------------------------------------------------------ bounds

\* Number of chunks the knowledge base holds (one more than numberOfResults,
\* so that a ranking longer than the requested count exists).
CorpusSize == 5

\* ------------------------------------------------------- program constants

\* retrieval_config = {"vectorSearchConfiguration": {"numberOfResults": 4}}
NumberOfResults == 4

\* ---------------------------------------------------------------- helpers

Min(a, b) == IF a < b THEN a ELSE b

Take(s, n) == SubSeq(s, 1, Min(n, Len(s)))

Reverse(s) == [i \in 1..Len(s) |-> s[Len(s) + 1 - i]]

RECURSIVE Join(_, _)
\* Python's sep.join(parts), each part one token.
Join(parts, sep) ==
  IF parts = <<>> THEN <<>>
  ELSE IF Len(parts) = 1 THEN <<parts[1]>>
  ELSE <<parts[1], sep>> \o Join(Tail(parts), sep)

\* ------------------------------------------------- client configuration

\* bedrock_config = Config(connect_timeout=120, read_timeout=120,
\*                         retries={'max_attempts': 0})
bedrock_config ==
  [connect_timeout |-> 120, read_timeout |-> 120, max_retries |-> 0]

\* What a boto3 client gets when no config= is passed: botocore's default
\* retry handler (legacy mode, 5 attempts in all) and 60 s timeouts.
default_config ==
  [connect_timeout |-> 60, read_timeout |-> 60, max_retries |-> 4]

\* bedrock_client = boto3.client('bedrock-runtime')
bedrock_client == [service |-> "bedrock-runtime", config |-> default_config]

\* bedrock_agent_client = boto3.client("bedrock-agent-runtime", config=bedrock_config)
bedrock_agent_client ==
  [service |-> "bedrock-agent-runtime", config |-> bedrock_config]

\* llm = Bedrock(model_id=..., model_kwargs=model_kwargs_claude, client=bedrock_client)
llm == [client |-> bedrock_client]

\* The client AmazonKnowledgeBasesRetriever builds for itself when no
\* client= is passed: LangChain gives it 120 s timeouts and no retries.
retriever_config ==
  [connect_timeout |-> 120, read_timeout |-> 120, max_retries |-> 0]

\* retriever = AmazonKnowledgeBasesRetriever(knowledge_base_id=kb_id,
\*     retrieval_config=...): no client= is passed (bedrock_agent_client is
\* built above and never used), so the retriever calls the Retrieve API
\* through a client of its own.
retriever ==
  [client |-> [service |-> "bedrock-agent-runtime", config |-> retriever_config],
   numberOfResults |-> NumberOfResults]

\* --------------------------------------------------- the external services

Questions ==
  {"What is 2+2?",
   "By what percentage did AWS revenue grow year-over-year in 2022?"}

\* Relevance scores in hundredths; the first four are the recorded ones
\* (0.818, 0.809, 0.778, 0.752), rounded.
Score(i) == IF i <= 4 THEN <<82, 81, 78, 75>>[i] ELSE 75 - (i - 4)

Text(i) == "chunk-" \o ToString(i)

\* A retrieved chunk as LangChain's Document(page_content, metadata).
Document(i) ==
  [page_content |-> Text(i),
   metadata |-> [source |-> "s3://letters/" \o ToString(i), score |-> Score(i)]]

Corpus == {Document(i) : i \in 1..CorpusSize}

PassageTexts == {d.page_content : d \in Corpus}

\* The rankings the knowledge base may hold for a question: by descending
\* score, by ascending score, cut to any length (zero chunks match, or more
\* chunks match than are asked for).
Descending == [i \in 1..CorpusSize |-> Document(i)]

RankedLists ==
  {SubSeq(r, 1, n) : r \in {Descending, Reverse(Descending)}, n \in 0..CorpusSize}

\* What one request to a service comes back with.
ServiceOutcomes == {"ok", "throttled", "unavailable"}

\* The texts the generation service may return.
GenTexts == {"I don't know.", "AWS revenue grew 29% year-over-year in 2022."}

\* Mutant of Retrieve: the requested count is ignored.
RetrieveIgnoringCount(ranking, n) == ranking

\* Mutant of Retrieve: one result more than asked for (an off-by-one cut).
RetrieveOneMore(ranking, n) == Take(ranking, n + 1)

\* The Retrieve API: the first numberOfResults chunks of the ranking.
Retrieve(ranking, n) == Take(ranking, n)

\* What a request may do: come back with one of the service's outcomes, or
\* get no reply at all.
RequestOutcomes == ServiceOutcomes \cup {"hang"}

\* Mutant of TimesOut: the client waits without limit (read_timeout=None).
NeverTimesOut(config) == FALSE

\* A client with a read timeout gives up waiting after that many seconds.
TimesOut(config) == config.read_timeout > 0

\* How a request ends for the client: a request without reply ends in the
\* client's timeout error, which counts as the service being unavailable, or
\* never ends when the client has no timeout.
Settled(config, r) ==
  IF r # "hang" THEN r
  ELSE IF TimesOut(config) THEN "unavailable" ELSE "blocked"

\* botocore's retry handler: throttling, 5xx, connection and timeout errors
\* are sent again while retries remain.
ShouldRetry(config, outcome, attempts) ==
  /\ outcome \in {"throttled", "unavailable"}
  /\ attempts - 1 < config.max_retries

\* The failure a component raises once its client gives up.
RetrievalFailure(outcome) ==
  IF outcome = "throttled" THEN "QuotaExceeded" ELSE "RetrievalUnavailable"

GenerationFailure(outcome) ==
  IF outcome = "throttled" THEN "QuotaExceeded" ELSE "GenerationUnavailable"

\* ------------------------------------------------------- prompt assembly

Placeholders == {"{context}", "{question}"}

\* PROMPT_TEMPLATE, cut into its literals and its two placeholders.
PROMPT_TEMPLATE ==
  <<"Human: You are a financial advisor AI system, ...",
    "<context>", "{context}", "</context>",
    "<question>", "{question}", "</question>",
    "The response should be specific and use statistics or numbers when possible.",
    "Assistant:">>

\* claude_prompt = PromptTemplate(template=PROMPT_TEMPLATE,
\*                                input_variables=["context","question"])
claude_prompt == [template |-> PROMPT_TEMPLATE,
                  input_variables |-> {"context", "question"}]

RECURSIVE FormatFrom(_, _, _)
\* str.format over the template: one pass, each placeholder replaced by the
\* text of its argument, the substituted text never scanned again.
FormatFrom(template, context, question) ==
  IF template = <<>> THEN <<>>
  ELSE LET h == Head(template)
           r == FormatFrom(Tail(template), context, question)
       IN IF h = "{context}" THEN context \o r
          ELSE IF h = "{question}" THEN question \o r
          ELSE <<h>> \o r

\* Mutant of Format: only the context is filled in (a partial format).
FormatContextOnly(context, question) ==
  FormatFrom(claude_prompt.template, context, <<"{question}">>)

\* claude_prompt.format(context=..., question=...), its arguments already text.
Format(context, question) ==
  FormatFrom(claude_prompt.template, context, question)

RECURSIVE ReprItems(_)
ReprItems(texts) ==
  IF texts = <<>> THEN <<>>
  ELSE IF Len(texts) = 1 THEN <<"'", texts[1], "'">>
  ELSE <<"'", texts[1], "'", ", ">> \o ReprItems(Tail(texts))

\* str(list_of_str): what str.format substitutes for a list argument.
StrOfList(texts) == <<"[">> \o ReprItems(texts) \o <<"]">>

\* Mutant of get_contexts: the texts come out by descending score
\* (each text is inserted before the texts of lower score).
get_contexts_by_score(ds) ==
  LET rank(i) == 1 + Cardinality({j \in 1..Len(ds) :
                     \/ ds[j].metadata.score > ds[i].metadata.score
                     \/ (ds[j].metadata.score = ds[i].metadata.score /\ j < i)})
  IN [k \in 1..Len(ds) |->
        ds[CHOOSE i \in 1..Len(ds) : rank(i) = k].page_content]

\* Mutant of get_contexts: the wrong attribute is collected (the source
\* instead of the text).
get_contexts_with_source(ds) == [i \in 1..Len(ds) |-> ds[i].metadata.source]

\* def get_contexts(docs): the page_content of each document, in order.
get_contexts(ds) == [i \in 1..Len(ds) |-> ds[i].page_content]

\* The "stuff" chain's context: "\n\n".join(doc.page_content for doc in docs).
StuffContext(ds) == Join(get_contexts(ds), "\n\n")

\* The text between two delimiter tokens of a prompt.
Index(p, tok) ==
  IF \E i \in 1..Len(p) : p[i] = tok
  THEN CHOOSE i \in 1..Len(p) : p[i] = tok /\ \A j \in 1..(i - 1) : p[j] # tok
  ELSE 0

Between(p, open, close) ==
  IF Index(p, open) = 0 \/ Index(p, close) = 0 THEN <<>>
  ELSE SubSeq(p, Index(p, open) + 1, Index(p, close) - 1)

ContextSection(p) == Between(p, "<context>", "</context>")

QuestionSection(p) == Between(p, "<question>", "</question>")

IsPassageText(tok) == tok \in PassageTexts

TextsIn(section) == SelectSeq(section, IsPassageText)

\* ------------------------------------------------------- model options

\* model_kwargs_claude = {"temperature": 0, "top_k": 10,
\*                        "max_tokens_to_sample": 3000}: the option names.
model_kwargs_claude == {"temperature", "top_k", "max_tokens_to_sample"}

\* The inference parameters the model accepts in a request body.
RecognisedOptions == {"temperature", "top_k", "top_p", "max_tokens_to_sample"}

\* The option dictionaries the llm cell may be run with: the notebook's, a
\* smaller one, and one with a setting the model does not know.
OptionSets ==
  {model_kwargs_claude, {"temperature"},
   model_kwargs_claude \cup {"frequency_penalty"}}

\* LangChain's Bedrock puts model_kwargs into the request body as they are;
\* the model's endpoint is what accepts or rejects them.
RequestBody(options, text) == [options |-> options, prompt |-> text]

ModelAccepts(body) == body.options \subseteq RecognisedOptions

\* ------------------------------------------------------- the manual runs

\* Two runs of the manual cells, each for a question of its own.
Runs == {1, 2}

AskedBy(i) ==
  IF i = 1 THEN "What is 2+2?"
  ELSE "By what percentage did AWS revenue grow year-over-year in 2022?"

\* ------------------------------------- first notebook: Claude 3 responses

\* Most content blocks a response body carries.
MaxBlocks == 2

TextBlock(t) == [type |-> "text", text |-> t]

\* The "content" arrays of a Messages API response: zero or more text blocks.
ContentLists ==
  UNION {[1..n -> {TextBlock(t) : t \in GenTexts}] : n \in 0..MaxBlocks}

\* The bodies a successful invoke_model of Claude 3 may carry.
ClaudeBodies == {[content |-> c, stop_reason |-> "end_turn"] : c \in ContentLists}

\* A body without any generated output field.
NoOutputBody == [stop_reason |-> "end_turn"]

\* The bodies a successful invoke_model of Claude 3 with an image may carry:
\* the same Messages API shape, or a body without "content".
ImageBodies == ClaudeBodies \cup {NoOutputBody}

\* The bodies a successful invoke_model of Mistral may carry: "outputs" with
\* zero or more generations, or a body without "outputs".
MistralBodies ==
  {[outputs |-> [i \in 1..n |-> [text |-> "I don't know.", stop_reason |-> "stop"]]] :
     n \in 0..MaxBlocks} \cup {NoOutputBody}

\* The bodies a successful invoke_model of Titan may carry: "results" with
\* zero or more results, or a body without "results".
TitanBodies ==
  {[results |-> [i \in 1..n |-> [outputText |-> "I don't know.",
                                  completionReason |-> "FINISH"]]] :
     n \in 0..MaxBlocks} \cup {NoOutputBody}

\* dict.get(key, default)
Get(obj, key, default) == IF key \in DOMAIN obj THEN obj[key] ELSE default

NoResponse == [model |-> "none", read |-> FALSE]

NoBody == [unset |-> TRUE]

\* --------------------------------------- first notebook: embeddings

\* print(len(query_result)): the recorded dimension of a Titan embedding.
TitanDimension == 1536

\* embeddings = BedrockEmbeddings(): the default embedding model.
BedrockEmbeddings == [model_id |-> "amazon.titan-embed-text-v1"]

\* The vector the embedding model returns for a text: which text it stands
\* for and how many numbers it has.
Vector(model, t) ==
  [of |-> t,
   dimension |-> IF model.model_id = "amazon.titan-embed-text-v1"
                 THEN TitanDimension ELSE 1024]

NoVector == [of |-> "", dimension |-> 0]

\* texts = ["New Delhi is the capital of India", "Welcome to India", ...]
FirstTexts ==
  <<"New Delhi is the capital of India",
    "Welcome to India",
    "I am going to play football today">>

\* The text lists the embed_documents cell may be run with: the notebook's
\* list, its shorter beginnings (the empty list included), and the same
\* texts in another order.
TextLists ==
  {SubSeq(FirstTexts, 1, n) : n \in 0..Len(FirstTexts)} \cup {Reverse(FirstTexts)}

\* embeddings.embed_query(text): one request, one vector.
embed_query(t) == Vector(BedrockEmbeddings, t)

\* Mutant of embed_documents: the texts are embedded as one document.
embed_documents_as_one(txts) ==
  IF txts = <<>> THEN <<>> ELSE <<Vector(BedrockEmbeddings, txts[1])>>

\* embeddings.embed_documents(texts): one request per text, the vectors
\* collected in the order of the texts.
embed_documents(txts) ==
  [i \in 1..Len(txts) |-> Vector(BedrockEmbeddings, txts[i])]

\* ------------------------------------ first notebook: the vector store

\* Most rows the collection is let grow to.
MaxRows == 13

\* similarity_search(query=..., k=4)
SearchK == 4

\* texts = ['The sky is clear tonight.', ...]: the second batch.
SecondTexts ==
  <<"The sky is clear tonight.",
    "Cats are curious animals.",
    "It's raining in Paris.",
    "Learning Python can be fun.",
    "Coffee tastes better with friends.",
    "I live in Boston, its a beautiful city",
    "There is museum next to my home",
    "Music brings people together.",
    "The museum is closed on Mondays in few places",
    "In few places museums are open 7 days a week. like in my city">>

\* The texts by their distance from the query "Are museums open all the days
\* in any city": the recorded four nearest first, then the others.
NearestFirst ==
  <<SecondTexts[10], SecondTexts[9], SecondTexts[7], SecondTexts[6]>>
    \o SubSeq(SecondTexts, 1, 5) \o <<SecondTexts[8]>> \o FirstTexts

\* The distance orders the embedding model may induce.
DistanceOrders == {NearestFirst, Reverse(NearestFirst)}

\* A row of langchain_pg_embedding: the text and its vector.
Row(t) == [document |-> t, embedding |-> Vector(BedrockEmbeddings, t)]

\* Mutant of from_texts: the collection is emptied first
\* (pre_delete_collection=True).
from_texts_replacing(rows, txts) == [i \in 1..Len(txts) |-> Row(txts[i])]

\* PGVector.from_texts(texts, collection_name, connection_string, embedding):
\* the texts are embedded and their rows added to the named collection; with
\* pre_delete_collection left at False nothing is removed.
from_texts(rows, txts) == rows \o [i \in 1..Len(txts) |-> Row(txts[i])]

\* The rows by distance (the order's position of their text), rows of equal
\* distance in the order they were added.
ByDistance(rows, order) ==
  LET n == Len(rows)
      rank(i) == CHOOSE p \in 1..Len(order) : order[p] = rows[i].document
      key(i) == rank(i) * (n + 1) + i
      pos(i) == 1 + Cardinality({j \in 1..n : key(j) < key(i)})
  IN [p \in 1..n |-> rows[CHOOSE i \in 1..n : pos(i) = p]]

\* my_vector_store.similarity_search(query, k): the k nearest rows of the
\* collection as Documents.
similarity_search(rows, order, k) ==
  [i \in 1..Min(k, Len(rows)) |->
     [page_content |-> ByDistance(rows, order)[i].document]]

\* ------------------------------------------------------------------ state

VARIABLES
  kb,               \* the knowledge base: question -> ranked chunks
  bound,            \* the notebook's global names that are defined
  docs,             \* docs = retriever.get_relevant_documents(...)
  contexts,         \* contexts = get_contexts(docs)
  query,            \* query = "..."
  prompt,           \* prompt = claude_prompt.format(...)
  response,         \* response = llm(prompt)
  answer,           \* answer = qa(query)
  cellError,        \* the exception the last executed cell ended with
  stage,            \* where the running qa(query) call is
  chainQuestion,    \* qa's input
  chainDocs,        \* the documents qa's retriever returned
  chainPrompt,      \* the prompt qa's stuff chain built
  chainText,        \* the text qa's llm returned
  retrievalCalls,   \* requests sent to the retrieval service by this call
  generationCalls,  \* requests sent to the generation service by this call
  trace,            \* the stages this call has entered, in order
  raised,           \* the failure a component raised in this call
  outcome,          \* what qa(query) handed its caller
  lastTimedOut,     \* this call's last request ran into its client's timeout
  hung,             \* this call waits on a request that never settles
  cancelledAt,      \* the stage in which this call was interrupted
  model_kwargs,     \* the option names llm was built with
  requestSent,      \* the last llm(prompt) cell sent a request to the model
  pc,               \* per manual run: the cell it executes next
  submitted,        \* per manual run: the prompt it passed to llm
  invoke_response,  \* first notebook: response = bedrock_runtime.invoke_model(...)
  response_body,    \* first notebook: response_body = json.loads(...)
  printed,          \* first notebook: the texts the last print cell wrote
  printError,       \* first notebook: the exception the last cell ended with
  printedBy,        \* first notebook: the model whose print cell ran last
  query_result,     \* first notebook: query_result = embeddings.embed_query(text)
  doc_vectors,      \* first notebook: doc_vectors = embeddings.embed_documents(texts)
  texts,            \* first notebook: texts = [...]
  collection,       \* first notebook: the rows of "my_collection" in the database
  search_result     \* first notebook: what similarity_search returned last

notebook == <<bound, docs, contexts, query, prompt, response, answer, cellError>>

chain == <<stage, chainQuestion, chainDocs, chainPrompt, chainText,
           retrievalCalls, generationCalls, trace, raised, outcome,
           lastTimedOut, hung, cancelledAt>>

\* The manual runs that share the kernel.
runs == <<pc, submitted>>

\* The kernel of the first notebook (01_Getting_started).
\* The embedding and vector store cells of the first notebook.
store == <<query_result, doc_vectors, texts, collection, search_result>>

first_notebook ==
  <<invoke_response, response_body, printed, printError, printedBy, store>>

vars == <<kb, notebook, chain, model_kwargs, requestSent, runs, first_notebook>>

NoFailure == [component |-> "none", kind |-> "none"]

NoOutcome == [status |-> "none", kind |-> "none", text |-> "", sourcePassages |-> <<>>]

NoAnswer == [query |-> "", result |-> "", source_documents |-> <<>>]

\* The kernel after the setup cells: clients, llm, retriever, template,
\* get_contexts and qa are built, no result name is defined yet.
Init ==
  /\ kb \in [Questions -> RankedLists]
  /\ bound = {}
  /\ docs = <<>>
  /\ contexts = <<>>
  /\ query = ""
  /\ prompt = <<>>
  /\ response = ""
  /\ answer = NoAnswer
  /\ cellError = "none"
  /\ stage = "Idle"
  /\ chainQuestion = ""
  /\ chainDocs = <<>>
  /\ chainPrompt = <<>>
  /\ chainText = ""
  /\ retrievalCalls = 0
  /\ generationCalls = 0
  /\ trace = <<"Idle">>
  /\ raised = NoFailure
  /\ outcome = NoOutcome
  /\ lastTimedOut = FALSE
  /\ hung = FALSE
  /\ cancelledAt = "none"
  /\ model_kwargs = model_kwargs_claude
  /\ requestSent = FALSE
  /\ pc = [i \in Runs |-> "retrieve"]
  /\ submitted = [i \in Runs |-> <<>>]
  /\ invoke_response = NoResponse
  /\ response_body = NoBody
  /\ printed = <<>>
  /\ printError = "none"
  /\ printedBy = "none"
  /\ query_result = NoVector
  /\ doc_vectors = <<>>
  /\ texts = <<>>
  /\ collection = <<>>
  /\ search_result = <<>>

\* ------------------------------------------------- the chain: qa(query)

\* Mutant of NextStage: the llm is called straight after retrieval.
NextStageSkippingAssembly(s) ==
  CASE s = "Idle" -> "Retrieving"
    [] s = "Retrieving" -> "Generating"
    [] s = "Assembling" -> "Generating"
    [] s = "Generating" -> "Done"
    [] OTHER -> s

\* RetrievalQA runs its steps one after the other: get the documents, stuff
\* them into the prompt, call the llm, return.
NextStage(s) ==
  CASE s = "Idle" -> "Retrieving"
    [] s = "Retrieving" -> "Assembling"
    [] s = "Assembling" -> "Generating"
    [] s = "Generating" -> "Done"
    [] OTHER -> s

\* Mutant of StageAfterFailure: the exception is swallowed and the chain
\* goes on with what it has.
StageAfterFailureSwallowed(s) ==
  CASE s = "Retrieving" -> "Assembling"
    [] s = "Generating" -> "Done"
    [] OTHER -> s

\* An exception raised by a step is not caught anywhere: it leaves qa(query).
StageAfterFailure(s) == "Failed"

\* Mutant of QaResult: the source documents are left out.
QaResultWithoutSources(q, text, ds) ==
  [query |-> q, result |-> text, source_documents |-> <<>>]

\* The dictionary qa returns (return_source_documents=True).
QaResult(q, text, ds) == [query |-> q, result |-> text, source_documents |-> ds]

\* What the caller holds after a successful return.
Returned(res) ==
  [status |-> "Answer", kind |-> "none", text |-> res.result,
   sourcePassages |-> res.source_documents]

\* What the caller holds after the exception: the error alone.
Failed(kind) ==
  [status |-> "Failed", kind |-> kind, text |-> "", sourcePassages |-> <<>>]

\* answer = qa(query): the call starts.
QaCall ==
  /\ stage \in {"Idle", "Done", "Failed"}
  /\ "query" \in bound
  /\ stage' = NextStage("Idle")
  /\ trace' = <<"Idle", NextStage("Idle")>>
  /\ chainQuestion' = query
  /\ chainDocs' = <<>>
  /\ chainPrompt' = <<>>
  /\ chainText' = ""
  /\ retrievalCalls' = 0
  /\ generationCalls' = 0
  /\ raised' = NoFailure
  /\ outcome' = NoOutcome
  /\ cellError' = "none"
  /\ lastTimedOut' = FALSE
  /\ cancelledAt' = "none"
  /\ UNCHANGED <<kb, bound, docs, contexts, query, prompt, response, answer,
                 hung, model_kwargs, requestSent, runs, first_notebook>>

\* A component raised `kind` while the call was in its current stage.
ChainFails(component, kind) ==
  LET s == StageAfterFailure(stage) IN
  /\ raised' = [component |-> component, kind |-> kind]
  /\ stage' = s
  /\ trace' = Append(trace, s)
  /\ IF s = "Failed"
     THEN /\ outcome' = Failed(kind)
          /\ cellError' = kind
     ELSE UNCHANGED <<outcome, cellError>>

\* retriever.get_relevant_documents(question): one request of the
\* retriever's client to the Retrieve API, and what follows from its outcome.
RetrieveAttempt ==
  /\ stage = "Retrieving"
  /\ ~hung
  /\ \E sent \in RequestOutcomes :
       LET n == retrievalCalls + 1
           r == Settled(retriever.client.config, sent)
       IN
       /\ retrievalCalls' = n
       /\ lastTimedOut' = (sent = "hang")
       /\ hung' = (r = "blocked")
       /\ IF r = "blocked"
          THEN UNCHANGED <<chainDocs, stage, trace, raised, outcome, cellError>>
          ELSE IF r = "ok"
          THEN /\ chainDocs' = Retrieve(kb[chainQuestion], retriever.numberOfResults)
               /\ stage' = NextStage(stage)
               /\ trace' = Append(trace, NextStage(stage))
               /\ UNCHANGED <<raised, outcome, cellError>>
          ELSE IF ShouldRetry(retriever.client.config, r, n)
          THEN UNCHANGED <<chainDocs, stage, trace, raised, outcome, cellError>>
          ELSE /\ ChainFails("retrieval", RetrievalFailure(r))
               /\ UNCHANGED chainDocs
  /\ UNCHANGED <<kb, bound, docs, contexts, query, prompt, response, answer,
                 chainQuestion, chainPrompt, chainText, generationCalls,
                 cancelledAt, model_kwargs, requestSent, runs, first_notebook>>

\* Mutant of Assemble: the chain keeps a memory and puts the previous
\* answer into the prompt.
AssembleWithMemory ==
  /\ stage = "Assembling"
  /\ chainPrompt' =
       Format(StuffContext(chainDocs) \o <<answer.result>>, <<chainQuestion>>)
  /\ stage' = NextStage(stage)
  /\ trace' = Append(trace, NextStage(stage))
  /\ UNCHANGED <<kb, notebook, chainQuestion, chainDocs, chainText,
                 retrievalCalls, generationCalls, raised, outcome,
                 lastTimedOut, hung, cancelledAt,
                 model_kwargs, requestSent, runs, first_notebook>>

\* Mutant of Assemble: the chain rewrites the question before it builds the
\* prompt (as a question-condensing chain does).
AssembleRewritingQuestion ==
  /\ stage = "Assembling"
  /\ chainQuestion' = "What is 2+2?"
  /\ chainPrompt' = Format(StuffContext(chainDocs), <<"What is 2+2?">>)
  /\ stage' = NextStage(stage)
  /\ trace' = Append(trace, NextStage(stage))
  /\ UNCHANGED <<kb, notebook, chainDocs, chainText,
                 retrievalCalls, generationCalls, raised, outcome,
                 lastTimedOut, hung, cancelledAt,
                 model_kwargs, requestSent, runs, first_notebook>>

\* The stuff chain builds the prompt from the documents and the question.
Assemble ==
  /\ stage = "Assembling"
  /\ chainPrompt' = Format(StuffContext(chainDocs), <<chainQuestion>>)
  /\ stage' = NextStage(stage)
  /\ trace' = Append(trace, NextStage(stage))
  /\ UNCHANGED <<kb, notebook, chainQuestion, chainDocs, chainText,
                 retrievalCalls, generationCalls, raised, outcome,
                 lastTimedOut, hung, cancelledAt,
                 model_kwargs, requestSent, runs, first_notebook>>

\* llm(prompt) inside the chain: one request of llm's client to the model,
\* and what follows from its outcome. On success qa returns its dictionary.
GenerateAttempt ==
  /\ stage = "Generating"
  /\ ~hung
  /\ \E sent \in RequestOutcomes, t \in GenTexts :
       LET n == generationCalls + 1
           r == Settled(llm.client.config, sent)
       IN
       /\ generationCalls' = n
       /\ lastTimedOut' = (sent = "hang")
       /\ hung' = (r = "blocked")
       /\ IF r = "blocked"
          THEN UNCHANGED <<chainText, stage, trace, answer, bound, raised,
                           outcome, cellError>>
          ELSE IF r = "ok"
          THEN /\ chainText' = t
               /\ stage' = NextStage(stage)
               /\ trace' = Append(trace, NextStage(stage))
               /\ answer' = QaResult(chainQuestion, t, chainDocs)
               /\ bound' = bound \cup {"answer"}
               /\ outcome' = Returned(QaResult(chainQuestion, t, chainDocs))
               /\ UNCHANGED <<raised, cellError>>
          ELSE IF ShouldRetry(llm.client.config, r, n)
          THEN UNCHANGED <<chainText, stage, trace, answer, bound, raised,
                           outcome, cellError>>
          ELSE /\ ChainFails("generation", GenerationFailure(r))
               /\ UNCHANGED <<chainText, answer, bound>>
  /\ UNCHANGED <<kb, docs, contexts, query, prompt, response,
                 chainQuestion, chainDocs, chainPrompt, retrievalCalls,
                 cancelledAt, model_kwargs, requestSent, runs, first_notebook>>

\* -------------------------------------------------------- the manual cells

\* The statements of each manual cell come first, as whoever executes the
\* cell runs them; the cells and the runs that execute them follow.

\* docs = retriever.get_relevant_documents(query=q): the call as a whole,
\* ending with the documents or with the failure of the last request.
RetrieveStatement(q) ==
  \E r \in ServiceOutcomes :
    /\ IF r = "ok"
       THEN /\ docs' = Retrieve(kb[q], retriever.numberOfResults)
            /\ bound' = bound \cup {"docs"}
            /\ cellError' = "none"
       ELSE /\ cellError' = RetrievalFailure(r)
            /\ UNCHANGED <<docs, bound>>
    /\ UNCHANGED <<kb, contexts, query, prompt, response, answer, chain,
                   model_kwargs, requestSent, first_notebook>>

\* contexts = get_contexts(docs)
ContextsStatement ==
  /\ IF "docs" \in bound
     THEN /\ contexts' = get_contexts(docs)
          /\ bound' = bound \cup {"contexts"}
          /\ cellError' = "none"
     ELSE /\ cellError' = "NameError"
          /\ UNCHANGED <<contexts, bound>>
  /\ UNCHANGED <<kb, docs, query, prompt, response, answer, chain,
                 model_kwargs, requestSent, first_notebook>>

\* response = llm(prompt): the call as a whole. The request body carries
\* model_kwargs as they are; a body the model does not accept comes back as
\* a validation error.
GenerateStatement ==
  \E r \in ServiceOutcomes, t \in GenTexts :
    /\ IF "prompt" \notin bound
       THEN /\ cellError' = "NameError"
            /\ requestSent' = FALSE
            /\ UNCHANGED <<response, bound>>
       ELSE /\ requestSent' = TRUE
            /\ IF r # "ok"
               THEN /\ cellError' = GenerationFailure(r)
                    /\ UNCHANGED <<response, bound>>
               ELSE IF ~ModelAccepts(RequestBody(model_kwargs, prompt))
               THEN /\ cellError' = "InvalidConfiguration"
                    /\ UNCHANGED <<response, bound>>
               ELSE /\ response' = t
                    /\ bound' = bound \cup {"response"}
                    /\ cellError' = "none"
    /\ UNCHANGED <<kb, docs, contexts, query, prompt, answer, chain,
                   model_kwargs, first_notebook>>

\* Mutant of FormatStatements: the render also reads the last response (a
\* prompt that carries the conversation so far).
FormatStatementsReadingResponse(q) ==
  /\ query' = q
  /\ IF "contexts" \in bound
     THEN /\ prompt' = Format(StrOfList(contexts) \o <<response>>, <<q>>)
          /\ bound' = bound \cup {"query", "prompt"}
          /\ cellError' = "none"
     ELSE /\ bound' = bound \cup {"query"}
          /\ cellError' = "NameError"
          /\ UNCHANGED prompt
  /\ UNCHANGED <<kb, docs, contexts, response, answer, chain,
                 model_kwargs, requestSent, first_notebook>>

\* query = q; prompt = claude_prompt.format(context=contexts, question=query)
\* With contexts undefined the second statement ends in a NameError, after
\* query has been assigned.
FormatStatements(q) ==
  /\ query' = q
  /\ IF "contexts" \in bound
     THEN /\ prompt' = Format(StrOfList(contexts), <<q>>)
          /\ bound' = bound \cup {"query", "prompt"}
          /\ cellError' = "none"
     ELSE /\ bound' = bound \cup {"query"}
          /\ cellError' = "NameError"
          /\ UNCHANGED prompt
  /\ UNCHANGED <<kb, docs, contexts, response, answer, chain,
                 model_kwargs, requestSent, first_notebook>>

\* The retrieval cell, with the question literal the user typed.
RetrieveCell ==
  /\ \E q \in Questions : RetrieveStatement(q)
  /\ UNCHANGED runs

ContextsCell == ContextsStatement /\ UNCHANGED runs

GenerateCell == GenerateStatement /\ UNCHANGED runs

\* The prompt cell, with the question literal the user typed.
FormatCell ==
  /\ \E q \in Questions : FormatStatements(q)
  /\ UNCHANGED runs

\* model_kwargs_claude = {...}; llm = Bedrock(model_id=..., model_kwargs=
\* model_kwargs_claude, client=bedrock_client), run again with other options.
\* Building the llm sends nothing and checks no option name.
LlmCell ==
  /\ \E options \in OptionSets : model_kwargs' = options
  /\ cellError' = "none"
  /\ UNCHANGED <<kb, bound, docs, contexts, query, prompt, response, answer,
                 chain, requestSent, runs, first_notebook>>

Next ==
  \/ FormatCell
  \/ QaCall
  \/ RetrieveAttempt
  \/ Assemble
  \/ GenerateAttempt

\* The packaged chain: the question is set, then qa(query) runs.
Spec == Init /\ [][Next]_vars

NextManual ==
  \/ RetrieveCell
  \/ ContextsCell
  \/ FormatCell
  \/ GenerateCell

\* The manual cells, executed in any order, any number of times.
SpecManual == Init /\ [][NextManual]_vars

NextOptions == NextManual \/ LlmCell

\* The manual cells with the llm cell run again under other options.
SpecOptions == Init /\ [][NextOptions]_vars

\* ----------------------------------------------- interrupting qa(query)

\* The kernel is interrupted while qa(query) runs: KeyboardInterrupt is
\* raised where the call stands and, like any exception, leaves qa(query).
Interrupt ==
  /\ stage \in {"Retrieving", "Assembling", "Generating"}
  /\ ~hung
  /\ cancelledAt' = stage
  /\ ChainFails("caller", "KeyboardInterrupt")
  /\ UNCHANGED <<kb, bound, docs, contexts, query, prompt, response, answer,
                 chainQuestion, chainDocs, chainPrompt, chainText,
                 retrievalCalls, generationCalls, lastTimedOut, hung,
                 model_kwargs, requestSent, runs, first_notebook>>

NextCancel == Next \/ Interrupt

\* The packaged chain under a user who may interrupt the kernel.
SpecCancel == Init /\ [][NextCancel]_vars

\* The packaged chain when every blocking step comes back: a request is
\* answered or ends in its client's timeout, and the prompt is built.
SpecLive ==
  /\ Init
  /\ [][Next]_vars
  /\ WF_vars(RetrieveAttempt)
  /\ WF_vars(Assemble)
  /\ WF_vars(GenerateAttempt)

\* ------------------------------------- two manual runs in one kernel

\* Each run executes the four manual cells in order for its own question;
\* the names docs, contexts, query, prompt and response are the kernel's.
After(i, cell) ==
  [pc EXCEPT ![i] = IF cellError' = "none" THEN cell ELSE "failed"]

RunRetrieve(i) ==
  /\ pc[i] = "retrieve"
  /\ RetrieveStatement(AskedBy(i))
  /\ pc' = After(i, "contexts")
  /\ UNCHANGED submitted

RunContexts(i) ==
  /\ pc[i] = "contexts"
  /\ ContextsStatement
  /\ pc' = After(i, "format")
  /\ UNCHANGED submitted

RunFormat(i) ==
  /\ pc[i] = "format"
  /\ FormatStatements(AskedBy(i))
  /\ pc' = After(i, "generate")
  /\ UNCHANGED submitted

RunGenerate(i) ==
  /\ pc[i] = "generate"
  /\ GenerateStatement
  /\ submitted' = [submitted EXCEPT ![i] = prompt]
  /\ pc' = After(i, "done")

NextConcurrent ==
  \E i \in Runs :
    \/ RunRetrieve(i)
    \/ RunContexts(i)
    \/ RunFormat(i)
    \/ RunGenerate(i)

SpecConcurrent == Init /\ [][NextConcurrent]_vars

\* ------------------------------------ first notebook: invoke and print

\* response = bedrock_runtime.invoke_model(body=body, modelId=model_id, ...)
\* for Claude 3: the call as a whole, ending with the response (its body a
\* stream not yet read) or with the failure of the last request.
InvokeClaudeCell ==
  /\ \E r \in ServiceOutcomes, b \in ClaudeBodies :
       IF r = "ok"
       THEN /\ invoke_response' = [model |-> "claude", body |-> b, read |-> FALSE]
            /\ printError' = "none"
       ELSE /\ printError' = GenerationFailure(r)
            /\ UNCHANGED invoke_response
  /\ UNCHANGED <<kb, notebook, chain, model_kwargs, requestSent, runs,
                 response_body, printed, printedBy, store>>

\* The texts the loop prints: one per content block, none without content.
ContentTexts(body) ==
  LET content == Get(body, "content", <<>>)
  IN [i \in 1..Len(content) |-> content[i].text]

\* response_body = json.loads(response.get("body").read())
\* for output in response_body.get("content", []): print(output["text"])
\* The body is a stream: read() after the first returns nothing, and
\* json.loads of nothing raises.
PrintClaudeCell ==
  /\ IF invoke_response = NoResponse
     THEN /\ printError' = "NameError"
          /\ printed' = <<>>
          /\ UNCHANGED <<invoke_response, response_body>>
     ELSE IF invoke_response.read
     THEN /\ printError' = "JSONDecodeError"
          /\ printed' = <<>>
          /\ UNCHANGED <<invoke_response, response_body>>
     ELSE /\ invoke_response' = [invoke_response EXCEPT !.read = TRUE]
          /\ response_body' = invoke_response.body
          /\ printed' = ContentTexts(invoke_response.body)
          /\ printError' = "none"
  /\ printedBy' = "claude"
  /\ UNCHANGED <<kb, notebook, chain, model_kwargs, requestSent, runs, store>>

NextInvoke == InvokeClaudeCell \/ PrintClaudeCell

\* The Claude 3 cells of the first notebook, in any order, any number of times.
SpecInvoke == Init /\ [][NextInvoke]_vars

\* ---------------------- first notebook: the other models' invoke cells

\* response = bedrock_runtime.invoke_model(...): the call as a whole, for a
\* model and the bodies it may answer with. Every cell binds the same name.
Invoke(model, bodies) ==
  /\ \E r \in ServiceOutcomes, b \in bodies :
       IF r = "ok"
       THEN /\ invoke_response' = [model |-> model, body |-> b, read |-> FALSE]
            /\ printError' = "none"
       ELSE /\ printError' = GenerationFailure(r)
            /\ UNCHANGED invoke_response
  /\ UNCHANGED <<kb, notebook, chain, model_kwargs, requestSent, runs,
                 response_body, printed, printedBy, store>>

InvokeImageCell == Invoke("claude_image", ImageBodies)

InvokeMistralCell == Invoke("mistral", MistralBodies)

InvokeTitanCell == Invoke("titan", TitanBodies)

\* body.get(field)[0].get(key): a missing field gives None, and None[0]
\* raises TypeError; an empty list raises IndexError; a missing key prints
\* None.
GetFirst(body, field, key) ==
  IF field \notin DOMAIN body THEN [error |-> "TypeError", printed |-> <<>>]
  ELSE IF body[field] = <<>> THEN [error |-> "IndexError", printed |-> <<>>]
  ELSE [error |-> "none", printed |-> <<Get(body[field][1], key, "None")>>]

\* body[field][0][key]: a missing field or key raises KeyError, an empty
\* list IndexError.
SubscriptFirst(body, field, key) ==
  IF field \notin DOMAIN body THEN [error |-> "KeyError", printed |-> <<>>]
  ELSE IF body[field] = <<>> THEN [error |-> "IndexError", printed |-> <<>>]
  ELSE IF key \notin DOMAIN body[field][1] THEN [error |-> "KeyError", printed |-> <<>>]
  ELSE [error |-> "none", printed |-> <<body[field][1][key]>>]

\* response_body = json.loads(response[...].read()); print(<first output>)
\* The assignment of response_body is done before the print raises.
PrintFirst(parser, parsed) ==
  /\ IF invoke_response = NoResponse
     THEN /\ printError' = "NameError"
          /\ printed' = <<>>
          /\ UNCHANGED <<invoke_response, response_body>>
     ELSE IF invoke_response.read
     THEN /\ printError' = "JSONDecodeError"
          /\ printed' = <<>>
          /\ UNCHANGED <<invoke_response, response_body>>
     ELSE /\ invoke_response' = [invoke_response EXCEPT !.read = TRUE]
          /\ response_body' = invoke_response.body
          /\ printed' = parsed.printed
          /\ printError' = parsed.error
  /\ printedBy' = parser
  /\ UNCHANGED <<kb, notebook, chain, model_kwargs, requestSent, runs, store>>

\* print(response_body.get('content')[0].get('text'))
PrintImageCell ==
  PrintFirst("claude_image",
             IF invoke_response = NoResponse THEN [error |-> "NameError", printed |-> <<>>]
             ELSE GetFirst(invoke_response.body, "content", "text"))

\* print(response_body.get('outputs')[0].get('text'))
PrintMistralCell ==
  PrintFirst("mistral",
             IF invoke_response = NoResponse THEN [error |-> "NameError", printed |-> <<>>]
             ELSE GetFirst(invoke_response.body, "outputs", "text"))

\* print(response_body['results'][0]['outputText'])
PrintTitanCell ==
  PrintFirst("titan",
             IF invoke_response = NoResponse THEN [error |-> "NameError", printed |-> <<>>]
             ELSE SubscriptFirst(invoke_response.body, "results", "outputText"))

NextParse ==
  \/ InvokeClaudeCell \/ InvokeImageCell \/ InvokeMistralCell \/ InvokeTitanCell
  \/ PrintClaudeCell \/ PrintImageCell \/ PrintMistralCell \/ PrintTitanCell

\* The first notebook runs in a kernel of its own and never queries the
\* knowledge base: one knowledge base, with nothing to retrieve, stands for
\* all.
InitParse == Init /\ kb = [q \in Questions |-> <<>>]

\* The invoke and print cells of the four models of the first notebook, in
\* any order, any number of times.
SpecParse == InitParse /\ [][NextParse]_vars

\* ------------------------------------- first notebook: embedding cells

\* text = "New Delhi is the capital of India"
\* query_result = embeddings.embed_query(text)
\* A failed request is raised by the embeddings wrapper as a ValueError.
EmbedQueryCell ==
  /\ \E r \in ServiceOutcomes :
       IF r = "ok"
       THEN /\ query_result' = embed_query(FirstTexts[1])
            /\ printError' = "none"
       ELSE /\ printError' = "ValueError"
            /\ UNCHANGED query_result
  /\ UNCHANGED <<kb, notebook, chain, model_kwargs, requestSent, runs,
                 invoke_response, response_body, printed, printedBy,
                 doc_vectors, texts, collection, search_result>>

\* texts = [...]
\* doc_vectors = embeddings.embed_documents(texts)
\* One request per text; a failed one ends the cell before the assignment.
EmbedDocumentsCell ==
  /\ \E txts \in TextLists, r \in ServiceOutcomes :
       /\ texts' = txts
       /\ IF r = "ok" \/ txts = <<>>
          THEN /\ doc_vectors' = embed_documents(txts)
               /\ printError' = "none"
          ELSE /\ printError' = "ValueError"
               /\ UNCHANGED doc_vectors
  /\ UNCHANGED <<kb, notebook, chain, model_kwargs, requestSent, runs,
                 invoke_response, response_body, printed, printedBy,
                 query_result, collection, search_result>>

NextEmbed == EmbedQueryCell \/ EmbedDocumentsCell

\* The embedding cells of the first notebook, in any order, any number of
\* times.
SpecEmbed == Init /\ [][NextEmbed]_vars

\* ---------------------------------- first notebook: vector store cells

\* texts = [...]; my_vector_store.from_texts(texts=texts, ...): the texts are
\* embedded first, so a failed embedding request leaves the collection as it
\* was.
FromTexts(txts) ==
  /\ Len(collection) + Len(txts) <= MaxRows
  /\ texts' = txts
  /\ \E r \in ServiceOutcomes :
       IF r = "ok"
       THEN /\ collection' = from_texts(collection, txts)
            /\ printError' = "none"
       ELSE /\ printError' = "ValueError"
            /\ UNCHANGED collection
  /\ UNCHANGED <<kb, notebook, chain, model_kwargs, requestSent, runs,
                 invoke_response, response_body, printed, printedBy,
                 query_result, doc_vectors, search_result>>

FromTextsFirstCell == FromTexts(FirstTexts)

FromTextsSecondCell == FromTexts(SecondTexts)

\* my_vector_store.similarity_search(query="Are museums open all the days in
\* any city", k=4): the query is embedded, then the nearest rows are read.
SimilaritySearchCell ==
  /\ \E r \in ServiceOutcomes, order \in DistanceOrders :
       IF r = "ok"
       THEN /\ search_result' = similarity_search(collection, order, SearchK)
            /\ printError' = "none"
       ELSE /\ printError' = "ValueError"
            /\ UNCHANGED search_result
  /\ UNCHANGED <<kb, notebook, chain, model_kwargs, requestSent, runs,
                 invoke_response, response_body, printed, printedBy,
                 query_result, doc_vectors, texts, collection>>

NextStore == FromTextsFirstCell \/ FromTextsSecondCell \/ SimilaritySearchCell

\* The vector store cells of the first notebook, in any order, any number of
\* times while the collection has room.
SpecStore == Init /\ [][NextStore]_vars

\* ------------------------------------------------------------- properties

\* The failure kinds a caller may be handed.
FailureKinds ==
  {"InvalidQuery", "InvalidPrompt", "InvalidConfiguration", "TemplateError",
   "RetrievalUnavailable", "GenerationUnavailable", "QuotaExceeded"}

PipelineOrder == <<"Idle", "Retrieving", "Assembling", "Generating", "Done">>

Count(p, tok) == Cardinality({i \in 1..Len(p) : p[i] = tok})

C2_LinearStages ==
  /\ stage = trace[Len(trace)]
  /\ \/ /\ Len(trace) <= Len(PipelineOrder)
        /\ trace = SubSeq(PipelineOrder, 1, Len(trace))
     \/ \E n \in 2..4 : trace = Append(SubSeq(PipelineOrder, 1, n), "Failed")
  /\ chainPrompt # <<>> =>
       /\ Len(trace) >= 3
       /\ trace[3] = "Assembling"
       /\ retrievalCalls > 0
       /\ raised.component # "retrieval"
  /\ generationCalls > 0 =>
       /\ chainPrompt # <<>>
       /\ Len(trace) >= 4
       /\ trace[4] = "Generating"
  /\ stage \in {"Retrieving", "Assembling", "Generating"} =>
       ENABLED (RetrieveAttempt \/ Assemble \/ GenerateAttempt)

\* C2 witness: a call that went through all five stages.
C2_Witness == stage = "Done" /\ trace = PipelineOrder

\* C3: once a component has raised, the call is in Failed with that
\* component's kind and nothing after the failing stage was entered: after a
\* retrieval failure no prompt exists and no generation request was sent;
\* after a generation failure no text was returned.
C3_FailureAborts ==
  /\ (stage = "Failed") <=> (raised # NoFailure)
  /\ raised # NoFailure =>
       /\ outcome.status = "Failed"
       /\ outcome.kind = raised.kind
       /\ trace[Len(trace)] = "Failed"
       /\ Count(trace, "Failed") = 1
  /\ raised.component = "retrieval" =>
       /\ trace = <<"Idle", "Retrieving", "Failed">>
       /\ chainPrompt = <<>>
       /\ generationCalls = 0
  /\ raised.component = "generation" =>
       /\ trace = <<"Idle", "Retrieving", "Assembling", "Generating", "Failed">>
       /\ chainText = ""

\* C3 witness: the generation client raised QuotaExceeded.
C3_Witness ==
  /\ raised = [component |-> "generation", kind |-> "QuotaExceeded"]
  /\ outcome.kind = "QuotaExceeded"

\* C4: within one call each service receives at most one request.
C4_SingleAttempt == retrievalCalls <= 1 /\ generationCalls <= 1

\* C5: a successful call hands back the text the generation client returned
\* and the documents the retriever returned, in the same order, both as the
\* outcome and in the notebook's answer; with no documents and the text
\* "I don't know." that is Answer{"I don't know.", []}.
C5_AnswerCarriesResults ==
  outcome.status = "Answer" =>
    /\ outcome.text = chainText
    /\ outcome.sourcePassages = chainDocs
    /\ chainDocs = Take(kb[chainQuestion], NumberOfResults)
    /\ "answer" \in bound
    /\ answer.query = chainQuestion
    /\ answer.result = chainText
    /\ answer.source_documents = chainDocs
    /\ (chainDocs = <<>> /\ chainText = "I don't know.") =>
         outcome = [status |-> "Answer", kind |-> "none",
                    text |-> "I don't know.", sourcePassages |-> <<>>]

\* C5 witness: scenario A.
C5_Witness ==
  /\ chainQuestion = "What is 2+2?"
  /\ kb[chainQuestion] = <<>>
  /\ outcome = [status |-> "Answer", kind |-> "none",
                text |-> "I don't know.", sourcePassages |-> <<>>]

\* C6: when generation fails after retrieval returned documents, the failure
\* handed to the caller carries those documents.
C6_PassagesOnFailure ==
  (outcome.status = "Failed" /\ raised.component = "generation") =>
    outcome.sourcePassages = chainDocs

\* C7: a rendered prompt holds no placeholder; the question stands exactly
\* once, alone in the question section; every passage text stands exactly
\* once, inside the context section; and outside the two sections the prompt
\* is the template's literals.
C7_PlaceholdersSubstitutedOnce ==
  "prompt" \in bound =>
    /\ \A i \in 1..Len(prompt) : prompt[i] \notin Placeholders
    /\ QuestionSection(prompt) = <<query>>
    /\ Count(prompt, query) = 1
    /\ \A t \in PassageTexts : Count(prompt, t) <= 1
    /\ TextsIn(prompt) = TextsIn(ContextSection(prompt))
    /\ Len(prompt) = Len(PROMPT_TEMPLATE) - 2
                       + Len(ContextSection(prompt)) + Len(QuestionSection(prompt))
    /\ \A tok \in {"<context>", "</context>", "<question>", "</question>"} :
         Count(prompt, tok) = 1

\* C7 witness: a prompt rendered from numberOfResults passages.
C7_Witness ==
  /\ "prompt" \in bound
  /\ Len(TextsIn(ContextSection(prompt))) = NumberOfResults

\* C8: get_contexts yields the documents' texts in the documents' order, and
\* the texts in a newly rendered prompt's context section are the supplied
\* texts in the supplied order.
C8_OrderPreserved ==
  [][/\ contexts' # contexts =>
          /\ Len(contexts') = Len(docs)
          /\ \A i \in 1..Len(docs) : contexts'[i] = docs[i].page_content
     /\ prompt' # prompt =>
          TextsIn(ContextSection(prompt')) = contexts]_vars

\* C8 witness: a prompt whose context section holds four texts in ascending
\* order of score.
C8_Witness ==
  /\ "prompt" \in bound
  /\ TextsIn(ContextSection(prompt)) =
       [i \in 1..NumberOfResults |-> Reverse(Descending)[i].page_content]

\* The separators a join could use.
Separators == {"\n\n", "\n", ", ", " "}

\* C9: the context section is the passage texts joined by one separator and
\* nothing else.
C9_ContextIsJoinedTexts ==
  "prompt" \in bound =>
    \E sep \in Separators :
      ContextSection(prompt) = Join(TextsIn(ContextSection(prompt)), sep)

\* C10: a prompt rendered from zero passages has an empty context section.
C10_EmptyContextSection ==
  ("prompt" \in bound /\ TextsIn(ContextSection(prompt)) = <<>>) =>
    ContextSection(prompt) = <<>>

\* C12: rendering is deterministic and pure. A render whose output differs
\* from the previous render's output was given other inputs (other passage
\* texts or another question), so identical inputs give the identical
\* prompt; and the step that renders sends no request to a service and
\* changes nothing but the cell's own two names, query and prompt.
C12_RenderDeterministicPure ==
  [][prompt' # prompt =>
       /\ "prompt" \in bound =>
            \/ TextsIn(ContextSection(prompt)) # contexts
            \/ QuestionSection(prompt) # <<query'>>
       /\ UNCHANGED <<kb, docs, contexts, response, answer, chain>>
       /\ bound' = bound \cup {"query", "prompt"}]_vars

\* C12 witness: a prompt rendered from two passages after a response had
\* already been generated from an earlier render.
C12_Witness ==
  /\ {"prompt", "response"} \subseteq bound
  /\ Len(contexts) = 2
  /\ prompt = Format(StrOfList(contexts), <<query>>)

C15_RejectedWithoutRequest ==
  cellError = "InvalidConfiguration" => ~requestSent

\* C16: a failed generation request is propagated at once, not sent again
\* silently: after its first request to the generation service the call has
\* left the Generating stage, with the text or with the failure.
C16_FailurePropagatedAtOnce ==
  stage = "Generating" => generationCalls = 0

\* C17: a successful generation yields exactly one text: when the print cell
\* has read and parsed the response of a successful invoke_model without an
\* error, it has written exactly one text.
C17_ExactlyOneText ==
  (invoke_response.read /\ printError = "none") => Len(printed) = 1

C19_NoStageAfterCancel ==
  cancelledAt # "none" =>
    /\ stage = "Failed"
    /\ \E n \in 2..4 :
         /\ PipelineOrder[n] = cancelledAt
         /\ trace = Append(SubSeq(PipelineOrder, 1, n), "Failed")
    /\ cancelledAt \in {"Retrieving", "Assembling"} =>
         chainPrompt = <<>> /\ generationCalls = 0
    /\ cancelledAt = "Retrieving" => chainDocs = <<>>
    /\ chainText = ""
    /\ outcome.status = "Failed"

\* C19 witness: a call interrupted in Generating, after a generation request
\* had already failed and before the next one was sent.
C19_Witness ==
  /\ cancelledAt = "Generating"
  /\ generationCalls >= 1
  /\ chainPrompt # <<>>
  /\ stage = "Failed"

\* The prompt a run of the manual cells for question q builds when it is
\* the only run in the kernel.
PromptAlone(q) ==
  Format(StrOfList(get_contexts(Retrieve(kb[q], retriever.numberOfResults))), <<q>>)

\* C20: with two manual runs interleaved, the prompt each run passes to the
\* llm is the prompt it would have built alone: its own question and the
\* passages retrieved for that question.
C20_RunsIndependent ==
  \A i \in Runs :
    pc[i] \in {"done", "failed"} /\ submitted[i] # <<>> =>
      submitted[i] = PromptAlone(AskedBy(i))

\* The prompt the chain sends for question q, given the knowledge base's
\* reply for q.
ChainPrompt(q) ==
  Format(StuffContext(Retrieve(kb[q], retriever.numberOfResults)), <<q>>)

\* C21: what a qa(query) call does is a function of its question and of the
\* services' replies alone, whatever calls ran before it: the documents are
\* the retrieval reply for this question, the prompt sent is the one built
\* from this question and those documents, a returned answer holds exactly
\* the generated text and those documents, and a failure holds exactly the
\* kind the failing component raised.
C21_OutcomeFunctionOfInputs ==
  /\ stage = "Idle" => chainDocs = <<>> /\ chainPrompt = <<>> /\ outcome = NoOutcome
  /\ stage # "Idle" =>
       /\ chainQuestion \in Questions
       /\ chainDocs \in
            {<<>>, Retrieve(kb[chainQuestion], retriever.numberOfResults)}
       /\ chainPrompt # <<>> => chainPrompt = ChainPrompt(chainQuestion)
       /\ outcome.status = "Answer" =>
            outcome = [status |-> "Answer", kind |-> "none", text |-> chainText,
                       sourcePassages |->
                         Retrieve(kb[chainQuestion], retriever.numberOfResults)]
       /\ outcome.status = "Failed" => outcome = Failed(raised.kind)
       /\ outcome.status = "none" => chainText = ""

\* C21 witness: a call that has built its prompt while the notebook still
\* holds the answer of an earlier call for another question.
C21_Witness ==
  /\ stage = "Generating"
  /\ chainPrompt # <<>>
  /\ "answer" \in bound
  /\ answer.query # chainQuestion
  /\ answer.source_documents # chainDocs

\* C22: for the same question and the same retrieval reply, the prompt the
\* chain sends to the generation service is the prompt the manual sequence
\* retrieve, get_contexts, claude_prompt.format builds.
C22_ChainEqualsManual ==
  chainPrompt # <<>> => chainPrompt = PromptAlone(chainQuestion)

\* C23: no stage changes the question. A step of a running qa(query), up to
\* and including its return or its failure, leaves the caller's query and
\* the call's own question as they were; the call starts with the caller's
\* query as its question; the question section of the prompt it builds holds
\* that question; and the dictionary it returns names that question.
C23_QuestionNotMutated ==
  [][/\ stage \in {"Retrieving", "Assembling", "Generating"} /\ stage' # "Retrieving" =>
          chainQuestion' = chainQuestion
     /\ (stage' # stage \/ retrievalCalls' # retrievalCalls
           \/ generationCalls' # generationCalls) =>
          query' = query
     /\ stage' = "Retrieving" /\ stage # "Retrieving" => chainQuestion' = query
     /\ chainPrompt' # chainPrompt /\ chainPrompt' # <<>> =>
          QuestionSection(chainPrompt') = <<chainQuestion>>
     /\ stage' = "Done" /\ stage # "Done" => answer'.query = chainQuestion]_vars

\* C23 witness: a call for the second question has ended in a failure.
C23_Witness ==
  /\ stage = "Failed"
  /\ raised.component = "retrieval"
  /\ chainQuestion = query
  /\ query = "By what percentage did AWS revenue grow year-over-year in 2022?"

\* C24: get_contexts(docs) is a list as long as docs whose i-th element is
\* the i-th document's page_content, a text without score or source, for
\* every list of documents, the empty one included; and the cell that calls
\* it leaves docs and its documents as they were.
C24_GetContexts ==
  /\ \A r \in RankedLists :
       /\ Len(get_contexts(r)) = Len(r)
       /\ \A i \in 1..Len(r) : get_contexts(r)[i] = r[i].page_content
       /\ r = <<>> => get_contexts(r) = <<>>
  /\ [][("contexts" \in bound' /\ cellError' = "none"
           /\ (contexts' # contexts \/ "contexts" \notin bound)) =>
          /\ docs' = docs
          /\ Len(contexts') = Len(docs)
          /\ \A i \in 1..Len(docs) :
               /\ contexts'[i] = docs[i].page_content
               /\ contexts'[i] \in PassageTexts]_vars

\* C24 witness: get_contexts was applied to the empty list of documents.
C24_Witness ==
  /\ {"docs", "contexts"} \subseteq bound
  /\ docs = <<>>
  /\ contexts = <<>>
  /\ cellError = "none"

\* C25: whenever llm(prompt) has been issued in the manual flow, the passage
\* texts in the prompt's context section are those retrieved for the
\* question in the prompt's question section.
C25_PromptOfOneQuestion ==
  (requestSent /\ "prompt" \in bound) =>
    \E q \in Questions :
      /\ QuestionSection(prompt) = <<q>>
      /\ TextsIn(ContextSection(prompt)) =
           get_contexts(Retrieve(kb[q], retriever.numberOfResults))

\* C26: every request the pipeline sends goes through a client configured
\* as bedrock_config is (120 s timeouts, no retries): the retriever's client
\* once a retrieval request was sent, llm's client once a generation request
\* was sent.
C26_ConfigGovernsEveryCall ==
  /\ retrievalCalls > 0 => retriever.client.config = bedrock_config
  /\ generationCalls > 0 => llm.client.config = bedrock_config

\* The texts stored in the collection, in the order they were added.
StoredTexts(rows) == [i \in 1..Len(rows) |-> rows[i].document]

\* C27: texts accumulate in the collection across from_texts calls: a call
\* adds its texts after the rows already there and removes none, so after the
\* batch of 3 and the batch of 10 the collection holds all 13; a similarity
\* search with k = 4 returns at most 4 documents, each a text added before.
C27_TextsAccumulate ==
  /\ [](/\ Len(search_result) <= SearchK
        /\ \A i \in 1..Len(search_result) :
             \E j \in 1..Len(collection) :
               search_result[i].page_content = collection[j].document)
  /\ [][/\ collection' # collection =>
             /\ SubSeq(collection', 1, Len(collection)) = collection
             /\ StoredTexts(collection') = StoredTexts(collection) \o texts'
        /\ search_result' # search_result =>
             /\ Len(search_result') = Min(SearchK, Len(collection))
             /\ UNCHANGED collection]_vars

\* Both batches loaded, the 3 before the 10, and the search has returned the
\* recorded four texts.
C27_Witness ==
  /\ StoredTexts(collection) = FirstTexts \o SecondTexts
  /\ Len(collection) = 13
  /\ Len(search_result) = 4
  /\ search_result[1].page_content = SecondTexts[10]
  /\ search_result[4].page_content = SecondTexts[6]

\* C28: embed_documents returns one vector per input text, in input order
\* (none for the empty list), each of the dimension of embed_query's vector,
\* 1536.
C28_OneVectorPerText ==
  /\ [](/\ \A i \in 1..Len(doc_vectors) : doc_vectors[i].dimension = TitanDimension
        /\ query_result # NoVector =>
             /\ query_result.dimension = TitanDimension
             /\ \A i \in 1..Len(doc_vectors) :
                  doc_vectors[i].dimension = query_result.dimension)
  /\ [][doc_vectors' # doc_vectors =>
          /\ Len(doc_vectors') = Len(texts')
          /\ \A i \in 1..Len(texts') : doc_vectors'[i].of = texts'[i]]_vars

\* The three texts embedded in another order than the notebook's, after the
\* query was embedded.
C28_Witness ==
  /\ query_result # NoVector
  /\ texts = Reverse(FirstTexts)
  /\ Len(doc_vectors) = 3
  /\ doc_vectors[1].of = FirstTexts[3]
  /\ printError = "none"

\* The field of a model's response body that carries the generated output.
OutputField(model) ==
  IF model = "mistral" THEN "outputs"
  ELSE IF model = "titan" THEN "results" ELSE "content"

\* The exceptions a lookup in a parsed body raises.
LookupErrors == {"TypeError", "IndexError", "KeyError"}

\* C29: parsing a response whose body carries no generated output never
\* raises: when a model's print cell has read and parsed the response of its
\* own model and the body's output field is missing or empty, no lookup in
\* the body raised and nothing was printed.
C29_ParsersNeverRaise ==
  (/\ invoke_response # NoResponse
   /\ invoke_response.read
   /\ printedBy = invoke_response.model
   /\ response_body = invoke_response.body
   /\ Get(response_body, OutputField(printedBy), <<>>) = <<>>)
  => (printError \notin LookupErrors /\ printed = <<>>)

====
